---------------------------- MODULE Spec2Model ----------------------------
(***************************************************************************)
(* Model of src/rs/step_c_abi.rs: the C-ABI entry point `step`, which      *)
(* reinterprets two raw f32 buffers as slices of (n * n) as usize elements *)
(* and hands them, with n as usize, to the kernel `_step`.                  *)
(*                                                                         *)
(* i32 values are TLA+ integers in I32Min..I32Max.  usize values are       *)
(* sequences of UsizeBytes bytes, least significant first, because 2^64    *)
(* does not fit the integers of the model checker; every usize operation   *)
(* below is exact byte arithmetic.                                         *)
(***************************************************************************)
EXTENDS Integers, Sequences, FiniteSets, TLC

(***************************************************************************)
(* Widths of the types of the signature.                                   *)
(***************************************************************************)
I32Bytes == 4
UsizeBytes == 8
ElemSize == 4
I32Max == 2147483647
I32Min == -I32Max - 1
Base == 2^8
\* Largest k with k * k <= I32Max: n * n overflows i32 exactly when |n| > MaxRoot.
MaxRoot == 46340
\* A dimension whose square, 2^32, wraps to 0 in i32.
WrapDim == 2^16

(***************************************************************************)
(* Bounds of the model.                                                    *)
(***************************************************************************)
\* Largest grid side whose kernel run is modelled cell by cell.
MaxN == 2
\* Largest grid side of the two concurrent invocations.
ConcN == 2
\* How many dimensions on each side of the overflow threshold are tried.
Slack == 2
\* Largest value of an input cell.
MaxVal == 1

(***************************************************************************)
(* Byte arithmetic.                                                        *)
(***************************************************************************)
Zeros(len) == [k \in 1..len |-> 0]

\* Two's complement bytes of an i32 (\div floors, % is non-negative).
I32ToBytes(x) == [k \in 1..I32Bytes |-> (x \div Base^(k - 1)) % Base]

\* The i32 a two's complement byte pattern denotes.
BytesToI32(b) ==
    b[1] + b[2] * Base + b[3] * Base^2
      + (IF b[4] >= Base \div 2 THEN b[4] - Base ELSE b[4]) * Base^3

\* Sign extension of a byte pattern to `len` bytes.
SignExtend(b, len) ==
    [k \in 1..len |->
        IF k <= Len(b) THEN b[k]
        ELSE IF b[Len(b)] >= Base \div 2 THEN Base - 1 ELSE 0]

RECURSIVE ColumnSum(_, _, _, _)
\* Sum of a[i] * b[k + 1 - i] over the byte pairs of column k, from i up.
ColumnSum(a, b, k, i) ==
    IF i > Len(a) THEN 0
    ELSE (IF k + 1 - i >= 1 /\ k + 1 - i <= Len(b) THEN a[i] * b[k + 1 - i] ELSE 0)
           + ColumnSum(a, b, k, i + 1)

RECURSIVE MulCarry(_, _, _, _, _)
\* Schoolbook product of a and b, columns k.. with incoming carry, `len` bytes in all.
MulCarry(a, b, k, carry, len) ==
    IF k > len THEN <<>>
    ELSE LET s == ColumnSum(a, b, k, 1) + carry
         IN  <<s % Base>> \o MulCarry(a, b, k + 1, s \div Base, len)

\* The full product of two byte sequences: Len(a) + Len(b) bytes.
MulFull(a, b) == MulCarry(a, b, 1, 0, Len(a) + Len(b))

RECURSIVE AddCarry(_, _, _, _)
\* Sum of a and b (equal lengths) from byte k with carry; one extra byte of carry out.
AddCarry(a, b, k, carry) ==
    IF k > Len(a) THEN <<carry>>
    ELSE LET s == a[k] + b[k] + carry
         IN  <<s % Base>> \o AddCarry(a, b, k + 1, s \div Base)

Low(b, len) == SubSeq(b, 1, len)
High(b, len) == SubSeq(b, len + 1, Len(b))

RECURSIVE LessFrom(_, _, _)
\* a < b as unsigned numbers, comparing from byte k downwards.
LessFrom(a, b, k) ==
    IF k = 0 THEN FALSE
    ELSE IF a[k] # b[k] THEN a[k] < b[k]
    ELSE LessFrom(a, b, k - 1)

ULess(a, b) == LessFrom(a, b, Len(a))


\* a + b as usize: the wrapped sum and whether it overflowed.
UAdd(a, b) ==
    LET s == AddCarry(a, b, 1, 0)
    IN  [val |-> Low(s, UsizeBytes), ovf |-> s[UsizeBytes + 1] # 0]

\* a * b as usize: the wrapped product and whether it overflowed.
UMul(a, b) ==
    LET p == MulFull(a, b)
    IN  [val |-> Low(p, UsizeBytes), ovf |-> High(p, UsizeBytes) # Zeros(UsizeBytes)]

\* a - 1 as usize, wrapping.
UDec(a) == UAdd(a, [k \in 1..UsizeBytes |-> Base - 1]).val

\* The natural number a usize below 2^31 denotes.
UToNat(a) == a[1] + a[2] * Base + a[3] * Base^2 + a[4] * Base^3

(***************************************************************************)
(* The expressions of step (lines 3 to 5).                                 *)
(***************************************************************************)
\* x * y as a 64-bit two's complement number: exact, since |x * y| <= 2^62.
WideMul(x, y) ==
    Low(MulFull(SignExtend(I32ToBytes(x), UsizeBytes),
                SignExtend(I32ToBytes(y), UsizeBytes)), UsizeBytes)

\* `x * y` on i32 does not fit i32 (a panic when overflow checks are compiled in).
MulOverflows(x, y) ==
    WideMul(x, y) # SignExtend(Low(WideMul(x, y), I32Bytes), UsizeBytes)

\* `x * y` on i32 when it does not panic: the low 32 bits.
WrappingMul(x, y) == BytesToI32(Low(WideMul(x, y), I32Bytes))

\* `x as usize` for an i32 x: sign extension to the pointer width.
AsUsize(x) == SignExtend(I32ToBytes(x), UsizeBytes)

\* Mutant of SliceLen: a view one element longer than the grid.
SliceLenPlusOne(x) == AsUsize(WrappingMul(x, x) + 1)

\* `(n * n) as usize`, the length both views are given.
SliceLen(x) == AsUsize(WrappingMul(x, x))

\* Mutant of KernelDim: n zero-extended, as `n as u32 as usize` would be.
KernelDimZeroExtended(x) == I32ToBytes(x) \o Zeros(UsizeBytes - I32Bytes)

\* `n as usize`, the dimension the kernel is given.
KernelDim(x) == AsUsize(x)

\* from_raw_parts requires len * size_of::<f32>() <= isize::MAX.
SliceTooLong(len) == len[UsizeBytes] >= Base \div (2 * ElemSize)

(***************************************************************************)
(* The dimensions the callers of the model pass, and the expressions above *)
(* tabulated over them (each is evaluated once).                           *)
(***************************************************************************)
\* Dimensions whose kernel run is modelled: small ones of either sign, and WrapDim.
MemDims == ((0 - MaxN)..MaxN) \cup {WrapDim}

\* Dimensions of the two concurrent invocations.
ConcDims == 0..ConcN

\* Dimensions around every threshold of the i32 arithmetic.
AdapterDims ==
    ((0 - MaxN)..MaxN)
      \cup {MaxRoot - k : k \in 0..Slack} \cup {MaxRoot + 1 + k : k \in 0..Slack}
      \cup {k - MaxRoot : k \in 0..Slack} \cup {0 - MaxRoot - 1 - k : k \in 0..Slack}
      \cup {WrapDim, 0 - WrapDim, I32Max, I32Min, I32Min + 1}

AllDims == MemDims \cup ConcDims \cup AdapterDims

SliceLenOf == [x \in AllDims |-> SliceLen(x)]
KernelDimOf == [x \in AllDims |-> KernelDim(x)]
SquareOverflows == [x \in AllDims |-> MulOverflows(x, x)]
\* n * n as a mathematical integer (64-bit two's complement holds it exactly).
ProductOf == [x \in AllDims |-> WideMul(x, x)]

(***************************************************************************)
(* State.                                                                  *)
(*   overflow_checks, debug_assertions  how the crate was compiled         *)
(*   pc[t]        where invocation t of step stands                        *)
(*   n, r_raw, d_raw   the arguments of invocation t                       *)
(*   d, r         the two slices (locals of lines 3 and 4)                 *)
(*   kn, ki, kj   the kernel's dimension argument and loop counters        *)
(*   mem          the callers' buffers, the first BufCells cells of each   *)
(*   mem0         what each invocation's buffers held when it was called   *)
(*   writes, reads, touched, kcalls, kargs, prev   history                 *)
(***************************************************************************)
VARIABLES overflow_checks, debug_assertions, pc, n, r_raw, d_raw, d, r,
          kn, ki, kj, mem, mem0, writes, reads, touched, kcalls, kargs, prev

vars == <<overflow_checks, debug_assertions, pc, n, r_raw, d_raw, d, r,
          kn, ki, kj, mem, mem0, writes, reads, touched, kcalls, kargs, prev>>

\* Cells tracked per buffer: the largest modelled grid and one cell beyond it.
BufCells == MaxN * MaxN + 1
CellIdx == 0..(BufCells - 1)
\* What an output cell holds before a call when the caller pre-fills it.
Sentinel == 0 - 1

OutBuf(t) == <<t, "out">>
InBuf(t) == <<t, "in">>
NoBuf == <<0, "none">>
Buffers(T) == {OutBuf(t) : t \in T} \cup {InBuf(t) : t \in T}

\* A slice: the address it starts at, its length, and whether it is &mut.
Slice(ptr, len, mutable) == [ptr |-> ptr, len |-> len, mutable |-> mutable]
NoSlice == Slice(NoBuf, Zeros(UsizeBytes), FALSE)
NoArgs == [out |-> NoSlice, inp |-> NoSlice, dim |-> Zeros(UsizeBytes)]
NoPrev == [n |-> 0, inp |-> <<>>, fill |-> <<>>, out |-> <<>>, valid |-> FALSE]

Threads == DOMAIN pc
\* A panic inside an extern "C" function aborts the process.
Alive == \A t \in Threads : pc[t] # "aborted"

\* The tracked cells among the first nn * nn (exact for every i32 nn).
GridCells == [nn \in AllDims |-> {c \in CellIdx : ULess(AsUsize(c), ProductOf[nn])}]
InGrid(idx, nn) == idx \in GridCells[nn]

\* The input grids a caller passes: all zero, or one non-zero cell.
Grids(nn) ==
    {[i \in CellIdx |-> 0]}
      \cup {[i \in CellIdx |-> IF i = k THEN v ELSE 0] :
              k \in GridCells[nn], v \in 1..MaxVal}

\* The state after construction, for the invocations T.
InitFor(T) ==
    /\ overflow_checks \in BOOLEAN
    /\ debug_assertions \in BOOLEAN
    /\ pc = [t \in T |-> "idle"]
    /\ n = [t \in T |-> 0]
    /\ r_raw = [t \in T |-> NoBuf]
    /\ d_raw = [t \in T |-> NoBuf]
    /\ d = [t \in T |-> NoSlice]
    /\ r = [t \in T |-> NoSlice]
    /\ kn = [t \in T |-> Zeros(UsizeBytes)]
    /\ ki = [t \in T |-> 0]
    /\ kj = [t \in T |-> 0]
    /\ mem = [b \in Buffers(T) |-> [i \in CellIdx |-> 0]]
    /\ mem0 = mem
    /\ writes = [b \in Buffers(T) |-> [i \in CellIdx |-> 0]]
    /\ reads = [t \in T |-> 0]
    /\ touched = [t \in T |-> {}]
    /\ kcalls = [t \in T |-> 0]
    /\ kargs = [t \in T |-> NoArgs]
    /\ prev = NoPrev

Init == InitFor({1})
InitConc == InitFor({1, 2})

(***************************************************************************)
(* The caller: fills its two buffers and calls step(r_raw, d_raw, n).      *)
(***************************************************************************)
CallWith(t, nn, grid, fill) ==
    /\ Alive
    /\ n' = [n EXCEPT ![t] = nn]
    /\ r_raw' = [r_raw EXCEPT ![t] = OutBuf(t)]
    /\ d_raw' = [d_raw EXCEPT ![t] = InBuf(t)]
    /\ mem' = [mem EXCEPT ![InBuf(t)] = grid,
                          ![OutBuf(t)] = [i \in CellIdx |-> fill]]
    /\ mem0' = [mem0 EXCEPT ![InBuf(t)] = grid,
                            ![OutBuf(t)] = [i \in CellIdx |-> fill]]
    /\ writes' = [writes EXCEPT ![InBuf(t)] = [i \in CellIdx |-> 0],
                                ![OutBuf(t)] = [i \in CellIdx |-> 0]]
    /\ reads' = [reads EXCEPT ![t] = 0]
    /\ touched' = [touched EXCEPT ![t] = {}]
    /\ kcalls' = [kcalls EXCEPT ![t] = 0]
    /\ kargs' = [kargs EXCEPT ![t] = NoArgs]
    /\ pc' = [pc EXCEPT ![t] = "line3"]
    /\ UNCHANGED <<overflow_checks, debug_assertions, d, r, kn, ki, kj, prev>>

Call(t) ==
    /\ pc[t] \in {"idle", "returned"}
    /\ \E nn \in MemDims : \E grid \in Grids(nn) : \E fill \in {Sentinel, 0} :
          CallWith(t, nn, grid, fill)

\* The callers of the concurrent invocations pre-fill the output with the sentinel
\* and pass the zero grid or a grid with one cell of MaxVal.
CallOnce(t) ==
    /\ pc[t] = "idle"
    /\ \E nn \in ConcDims :
          \E grid \in {g \in Grids(nn) : \A c \in CellIdx : g[c] \in {0, MaxVal}} :
              CallWith(t, nn, grid, Sentinel)

CallAny(t) ==
    /\ pc[t] = "idle"
    /\ \E nn \in AdapterDims : CallWith(t, nn, mem[InBuf(t)], Sentinel)

(***************************************************************************)
(* step, line by line.                                                     *)
(***************************************************************************)
Abort(t) == pc' = [pc EXCEPT ![t] = "aborted"]

\* `n * n` panics, or from_raw_parts's precondition check does.
ViewPanics(t) ==
    \/ overflow_checks /\ SquareOverflows[n[t]]
    \/ debug_assertions /\ SliceTooLong(SliceLenOf[n[t]])

\* Mutant of InputView: the address of the first invocation's input is reused.
InputViewShared(t) == Slice(InBuf(1), SliceLenOf[n[t]], FALSE)

\* Line 3: let d = from_raw_parts(d_raw, (n * n) as usize).
InputView(t) == Slice(d_raw[t], SliceLenOf[n[t]], FALSE)

\* Mutant of OutputView: the mutable view is built over the input address.
OutputViewOverInput(t) == Slice(d_raw[t], SliceLenOf[n[t]], TRUE)

\* Line 4: let mut r = from_raw_parts_mut(r_raw, (n * n) as usize).
OutputView(t) == Slice(r_raw[t], SliceLenOf[n[t]], TRUE)

BuildInputView(t) ==
    /\ Alive
    /\ pc[t] = "line3"
    /\ IF ViewPanics(t)
         THEN Abort(t) /\ UNCHANGED d
         ELSE /\ d' = [d EXCEPT ![t] = InputView(t)]
              /\ pc' = [pc EXCEPT ![t] = "line4"]
    /\ UNCHANGED <<overflow_checks, debug_assertions, n, r_raw, d_raw, r, kn, ki, kj,
                   mem, mem0, writes, reads, touched, kcalls, kargs, prev>>

BuildOutputView(t) ==
    /\ Alive
    /\ pc[t] = "line4"
    /\ IF ViewPanics(t)
         THEN Abort(t) /\ UNCHANGED r
         ELSE /\ r' = [r EXCEPT ![t] = OutputView(t)]
              /\ pc' = [pc EXCEPT ![t] = "line5"]
    /\ UNCHANGED <<overflow_checks, debug_assertions, n, r_raw, d_raw, d, kn, ki, kj,
                   mem, mem0, writes, reads, touched, kcalls, kargs, prev>>

\* Mutant of KernelArgs: the two views in the wrong order.
KernelArgsSwapped(t) == [out |-> d[t], inp |-> r[t], dim |-> KernelDimOf[n[t]]]

\* Mutant of KernelArgs: the dimension one too small.
KernelArgsShort(t) ==
    [out |-> r[t], inp |-> d[t],
     dim |-> IF n[t] >= 1 THEN KernelDim(n[t] - 1) ELSE KernelDim(n[t])]

\* Line 5: the arguments of _step(&mut r, d, n as usize).
KernelArgs(t) == [out |-> r[t], inp |-> d[t], dim |-> KernelDimOf[n[t]]]

InvokeKernel(t) ==
    /\ Alive
    /\ pc[t] = "line5"
    /\ kargs' = [kargs EXCEPT ![t] = KernelArgs(t)]
    /\ kcalls' = [kcalls EXCEPT ![t] = @ + 1]
    /\ kn' = [kn EXCEPT ![t] = KernelArgs(t).dim]
    /\ ki' = [ki EXCEPT ![t] = 0]
    /\ kj' = [kj EXCEPT ![t] = 0]
    /\ pc' = [pc EXCEPT ![t] = "kernel"]
    /\ UNCHANGED <<overflow_checks, debug_assertions, n, r_raw, d_raw, d, r,
                   mem, mem0, writes, reads, touched, prev>>

(***************************************************************************)
(* The kernel _step(r, d, n): for every cell (i, j) of the n x n grid, in  *)
(* row-major order, r[i*n + j] becomes the sum of d at the cell and at its *)
(* four neighbours, rows and columns wrapping around.  Slices are indexed  *)
(* with bounds checks and usize arithmetic.                                *)
(***************************************************************************)
\* row * dim + col in usize, and whether the arithmetic overflowed.
CellIndex(dim, row, col) ==
    LET m == UMul(row, dim)
        a == UAdd(m.val, col)
    IN  [val |-> a.val, ovf |-> m.ovf \/ a.ovf]

\* (k + dim - 1) % dim and (k + 1) % dim for a loop counter k < dim.
Before(dim, k) == IF k = 0 THEN UDec(dim) ELSE AsUsize(k - 1)
After(dim, k) == IF AsUsize(k + 1) = dim THEN AsUsize(0) ELSE AsUsize(k + 1)

\* What the loop does at counters (i, j): whether i < dim, the input indices read
\* (the cell, up, down, left, right), the output index written, whether j + 1 = dim.
CellPlan(dim, i, j) ==
    [loop |-> ULess(AsUsize(i), dim),
     reads |-> << CellIndex(dim, AsUsize(i), AsUsize(j)),
                  CellIndex(dim, Before(dim, i), AsUsize(j)),
                  CellIndex(dim, After(dim, i), AsUsize(j)),
                  CellIndex(dim, AsUsize(i), Before(dim, j)),
                  CellIndex(dim, AsUsize(i), After(dim, j)) >>,
     write |-> CellIndex(dim, AsUsize(i), AsUsize(j)),
     rowEnd |-> AsUsize(j + 1) = dim]

\* CellPlan tabulated over the dimensions the kernel can be given.
CellPlanOf ==
    [dim \in {KernelDimOf[x] : x \in MemDims \cup ConcDims},
     i \in 0..(MaxN + 1), j \in 0..(MaxN + 1) |-> CellPlan(dim, i, j)]

Plan(t) ==
    IF <<kn[t], ki[t], kj[t]>> \in DOMAIN CellPlanOf
      THEN CellPlanOf[kn[t], ki[t], kj[t]]
      ELSE CellPlan(kn[t], ki[t], kj[t])

RECURSIVE SumReads(_, _, _)
SumReads(buf, idx, k) ==
    IF k = 0 THEN 0 ELSE buf[UToNat(idx[k].val)] + SumReads(buf, idx, k - 1)

\* The kernel as a function: the output grid of a run on `grid` with dimension nn >= 0.
AloneResult(grid, nn) ==
    [c \in CellIdx |->
        IF c \in GridCells[nn]
          THEN SumReads(grid, CellPlanOf[KernelDimOf[nn], c \div nn, c % nn].reads, 5)
          ELSE 0]

\* An index computation overflows under overflow checks, or an index is out of bounds.
CellPanics(t) ==
    \/ \E k \in 1..5 :
          \/ overflow_checks /\ Plan(t).reads[k].ovf
          \/ ~ULess(Plan(t).reads[k].val, kargs[t].inp.len)
    \/ overflow_checks /\ Plan(t).write.ovf
    \/ ~ULess(Plan(t).write.val, kargs[t].out.len)

\* The value cell (ki, kj) is given.
CellValue(t) == SumReads(mem[kargs[t].inp.ptr], Plan(t).reads, 5)

\* One iteration of the loop body.
KernelCell(t) ==
    /\ Alive
    /\ pc[t] = "kernel"
    /\ Plan(t).loop
    /\ IF CellPanics(t)
         THEN Abort(t) /\ UNCHANGED <<ki, kj, mem, writes, reads, touched>>
         ELSE /\ mem' = [mem EXCEPT ![kargs[t].out.ptr][UToNat(Plan(t).write.val)] =
                                        CellValue(t)]
              /\ writes' = [writes EXCEPT
                               ![kargs[t].out.ptr][UToNat(Plan(t).write.val)] = @ + 1]
              /\ reads' = [reads EXCEPT ![t] = @ + 5]
              /\ touched' = [touched EXCEPT
                               ![t] = @ \cup {kargs[t].out.ptr, kargs[t].inp.ptr}]
              /\ IF Plan(t).rowEnd
                   THEN /\ ki' = [ki EXCEPT ![t] = @ + 1]
                        /\ kj' = [kj EXCEPT ![t] = 0]
                   ELSE /\ kj' = [kj EXCEPT ![t] = @ + 1]
                        /\ UNCHANGED ki
              /\ UNCHANGED pc
    /\ UNCHANGED <<overflow_checks, debug_assertions, n, r_raw, d_raw, d, r, kn,
                   mem0, kcalls, kargs, prev>>

\* The loop ends and _step returns.
KernelDone(t) ==
    /\ Alive
    /\ pc[t] = "kernel"
    /\ ~Plan(t).loop
    /\ pc' = [pc EXCEPT ![t] = "line6"]
    /\ UNCHANGED <<overflow_checks, debug_assertions, n, r_raw, d_raw, d, r, kn, ki, kj,
                   mem, mem0, writes, reads, touched, kcalls, kargs, prev>>

\* Line 6: the locals d and r go out of scope and step returns.
Return(t) ==
    /\ Alive
    /\ pc[t] = "line6"
    /\ d' = [d EXCEPT ![t] = NoSlice]
    /\ r' = [r EXCEPT ![t] = NoSlice]
    /\ pc' = [pc EXCEPT ![t] = "returned"]
    /\ UNCHANGED <<overflow_checks, debug_assertions, n, r_raw, d_raw, kn, ki, kj,
                   mem, mem0, writes, reads, touched, kcalls, kargs, prev>>

\* The output grid of invocation t: the first n * n cells of its output buffer.
OutGrid(t) == [i \in CellIdx |-> IF InGrid(i, n[t]) THEN mem[r_raw[t]][i] ELSE 0]

\* The caller keeps a copy of a finished call, to compare later calls with.
Remember(t) ==
    /\ Alive
    /\ pc[t] = "returned"
    /\ prev' = [n |-> n[t], inp |-> mem0[d_raw[t]], fill |-> mem0[r_raw[t]],
                out |-> OutGrid(t), valid |-> TRUE]
    /\ prev' # prev
    /\ UNCHANGED <<overflow_checks, debug_assertions, pc, n, r_raw, d_raw, d, r,
                   kn, ki, kj, mem, mem0, writes, reads, touched, kcalls, kargs>>

(***************************************************************************)
(* Specifications.                                                         *)
(***************************************************************************)
\* One thread calling step again and again.
Next ==
    \/ \E t \in Threads : Call(t)
    \/ \E t \in Threads : BuildInputView(t)
    \/ \E t \in Threads : BuildOutputView(t)
    \/ \E t \in Threads : InvokeKernel(t)
    \/ \E t \in Threads : KernelCell(t)
    \/ \E t \in Threads : KernelDone(t)
    \/ \E t \in Threads : Return(t)
    \/ \E t \in Threads : Remember(t)

Spec == Init /\ [][Next]_vars

\* Two threads, each calling step once on its own pair of buffers.
NextConc ==
    \/ \E t \in Threads : CallOnce(t)
    \/ \E t \in Threads : BuildInputView(t)
    \/ \E t \in Threads : BuildOutputView(t)
    \/ \E t \in Threads : InvokeKernel(t)
    \/ \E t \in Threads : KernelCell(t)
    \/ \E t \in Threads : KernelDone(t)
    \/ \E t \in Threads : Return(t)

SpecConc == InitConc /\ [][NextConc]_vars

\* The adapter alone, up to the kernel's invocation, for every kind of dimension.
NextAdapter ==
    \/ \E t \in Threads : CallAny(t)
    \/ \E t \in Threads : BuildInputView(t)
    \/ \E t \in Threads : BuildOutputView(t)
    \/ \E t \in Threads : InvokeKernel(t)

SpecAdapter == Init /\ [][NextAdapter]_vars

(***************************************************************************)
(* Properties.                                                             *)
(***************************************************************************)
ViewsBuilt(t) == d[t] # NoSlice /\ r[t] # NoSlice
Invoked(t) == kcalls[t] >= 1

\* C1: for every n >= 0, both views have length exactly the product n * n.
\* Fails: n * n is computed in i32 and wraps for n > MaxRoot.
C1_ViewLengthIsProduct ==
    \A t \in Threads :
        (n[t] >= 0 /\ ViewsBuilt(t)) =>
            d[t].len = ProductOf[n[t]] /\ r[t].len = ProductOf[n[t]]

\* C2: when step returns from a call with n >= 1, each of the n * n output cells
\* has been written exactly once and none holds the pre-call sentinel.
C2_EveryCellWrittenOnce ==
    \A t \in Threads :
        (pc[t] = "returned" /\ n[t] >= 1) =>
            /\ AsUsize(Cardinality(GridCells[n[t]])) = ProductOf[n[t]]
            /\ \A c \in GridCells[n[t]] :
                  writes[r_raw[t]][c] = 1 /\ mem[r_raw[t]][c] # Sentinel

C2_Witness ==
    \E t \in Threads :
        pc[t] = "returned" /\ n[t] = MaxN /\ mem0[r_raw[t]][0] = Sentinel

\* C3: a call with n = 0 builds views of length 0, reads no input cell, writes no
\* output cell, leaves all memory as it was, and returns.
C3_EmptyGridNoOp ==
    \A t \in Threads :
        (n[t] = 0 /\ pc[t] # "idle") =>
            /\ d[t] # NoSlice => d[t].len = Zeros(UsizeBytes)
            /\ r[t] # NoSlice => r[t].len = Zeros(UsizeBytes)
            /\ reads[t] = 0
            /\ \A c \in CellIdx : writes[r_raw[t]][c] = 0
            /\ mem = mem0
            /\ pc[t] # "aborted"

C3_Witness ==
    \E t \in Threads :
        /\ n[t] = 0 /\ pc[t] = "returned" /\ kcalls[t] = 1
        /\ \A c \in CellIdx : mem[r_raw[t]][c] = Sentinel

\* C4: throughout a call, every cell other than the first n * n cells of the
\* output buffer holds what it held when the call began; the input address is
\* only under a shared view, the only mutable view is over the output address.
C4_Frame ==
    \A t \in Threads :
        /\ \A b \in DOMAIN mem : \A c \in CellIdx :
              \/ b = r_raw[t] /\ InGrid(c, n[t])
              \/ mem[b][c] = mem0[b][c]
        /\ d[t] # NoSlice => d[t].ptr = d_raw[t] /\ ~d[t].mutable
        /\ r[t] # NoSlice => r[t].ptr = r_raw[t] /\ r[t].mutable
        /\ \A v \in {d[t], r[t], kargs[t].out, kargs[t].inp} :
              v.mutable => v.ptr = r_raw[t]

C4_Witness ==
    \E t \in Threads :
        /\ pc[t] = "returned"
        /\ n[t] = MaxN
        /\ \E c \in CellIdx : mem0[d_raw[t]][c] # 0
        /\ \A c \in GridCells[n[t]] : mem[r_raw[t]][c] # mem0[r_raw[t]][c]

\* C5: a call with a negative n is rejected at the boundary: no view is built
\* from it, the kernel is not invoked and the output buffer is unchanged.
\* Fails: step has no check on n.
C5_NegativeRejected ==
    \A t \in Threads :
        n[t] < 0 =>
            /\ ~ViewsBuilt(t)
            /\ ~Invoked(t)
            /\ mem[r_raw[t]] = mem0[r_raw[t]]

\* C6: a call that returns produced the same output grid as the remembered
\* earlier call with the same input grid and the same n.
C6_Deterministic ==
    \A t \in Threads :
        (pc[t] = "returned" /\ prev.valid /\ prev.n = n[t]
            /\ prev.inp = mem0[d_raw[t]]) =>
            OutGrid(t) = prev.out

C6_Witness ==
    \E t \in Threads :
        /\ pc[t] = "returned" /\ prev.valid /\ prev.n = n[t] /\ n[t] = MaxN
        /\ prev.inp = mem0[d_raw[t]]
        /\ prev.fill # mem0[r_raw[t]]
        /\ \E c \in CellIdx : prev.out[c] # 0

\* C7: of two concurrent invocations on disjoint buffer pairs, each one that
\* returns has produced what the kernel produces from its input alone, and
\* neither ever reads or writes a buffer of the other.
C7_NoInterference ==
    \A t \in Threads :
        /\ touched[t] \subseteq {OutBuf(t), InBuf(t)}
        /\ pc[t] = "returned" =>
              /\ OutGrid(t) = AloneResult(mem0[InBuf(t)], n[t])
              /\ mem[InBuf(t)] = mem0[InBuf(t)]

C7_Witness ==
    /\ pc[1] = "returned" /\ n[1] = ConcN /\ mem0[InBuf(1)][0] # 0
    /\ pc[2] = "kernel" /\ n[2] = ConcN /\ writes[OutBuf(2)][0] = 1
    /\ mem0[InBuf(2)] # mem0[InBuf(1)]

\* C8: whenever the kernel is invoked, its two views have the same length and
\* that length is the square of the dimension it is given.
\* Fails: for n < 0 the dimension is 2^64 + n while the length is n * n.
C8_LengthIsDimSquared ==
    \A t \in Threads :
        Invoked(t) =>
            /\ kargs[t].out.len = kargs[t].inp.len
            /\ MulFull(kargs[t].dim, kargs[t].dim) =
                  kargs[t].out.len \o Zeros(UsizeBytes)

\* C9: a call invokes the kernel at most once, only after both views are built,
\* with the view over r_raw as mutable output and the view over d_raw as shared
\* input; when step has returned the kernel was invoked once, its loop has
\* ended, and neither view exists any more.
C9_KernelOnceThenReturn ==
    \A t \in Threads :
        /\ kcalls[t] <= 1
        /\ Invoked(t) =>
              /\ kargs[t].out = Slice(r_raw[t], SliceLenOf[n[t]], TRUE)
              /\ kargs[t].inp = Slice(d_raw[t], SliceLenOf[n[t]], FALSE)
              /\ kargs[t].dim = kn[t]
        /\ pc[t] \in {"kernel", "line6"} => Invoked(t) /\ ViewsBuilt(t)
        /\ pc[t] = "line6" => ~Plan(t).loop
        /\ pc[t] = "returned" =>
              /\ kcalls[t] = 1
              /\ ~Plan(t).loop
              /\ d[t] = NoSlice /\ r[t] = NoSlice

C9_Witness ==
    \E t \in Threads :
        pc[t] = "returned" /\ n[t] = MaxN /\ kcalls[t] = 1 /\ ki[t] = MaxN

\* C10: for -MaxRoot <= n <= -1 nothing stops the call before the kernel; the
\* views have length |n|^2, the length the call with -n gets, and the kernel's
\* dimension is 2^64 + n, which is not the dimension of the call with -n.
C10_NegativePropagates ==
    \A t \in Threads :
        (n[t] < 0 /\ n[t] >= 0 - MaxRoot) =>
            /\ pc[t] # "aborted"
            /\ ViewsBuilt(t) =>
                  /\ d[t].len = r[t].len
                  /\ d[t].len = ProductOf[n[t]]
                  /\ d[t].len = SliceLen(0 - n[t])
            /\ Invoked(t) =>
                  /\ UAdd(kargs[t].dim, AsUsize(0 - n[t])) =
                        [val |-> Zeros(UsizeBytes), ovf |-> TRUE]
                  /\ kargs[t].dim # KernelDim(0 - n[t])
                  /\ kargs[t].out.len = ProductOf[0 - n[t]]

C10_Witness ==
    \E t \in Threads :
        n[t] = 0 - MaxRoot /\ Invoked(t) /\ pc[t] = "kernel"

=============================================================================
